---- MODULE Spec2Model ----
(***************************************************************************)
(* TaskScheduler (src/src/index.ts): a cron-triggered runner of registered *)
(* tasks with an overlap guard, a cooldown and an immediate mode.          *)
(*                                                                         *)
(* Strings are sequences of one-character tokens.  Time is in              *)
(* milliseconds, as Date.now() gives it.  Every await of the code is a     *)
(* point where other callbacks and calls of the caller may run.            *)
(***************************************************************************)
EXTENDS Integers, Sequences, FiniteSets, TLC

VARIABLES
    scheduleString,    \* constructor argument
    options,           \* constructor argument: TaskSchedulerOptions
    constructed,       \* the constructor has returned an object
    scheduleConfig,    \* this.scheduleConfig
    immediateEnvName,  \* this.immediateEnvName (NoName when undefined)
    tasks,             \* this.tasks
    isRunning,         \* this.isRunning
    lastFinishTime,    \* this.lastFinishTime
    cronJob,           \* this.cronJob: 0 when undefined, else the CronJob object
    ticking,           \* the CronJob objects that are started and not stopped
    now,               \* Date.now()
    passes,            \* the executor invocations suspended at an await
    finishedAt,        \* history: the times at which passes really finished
    stopDuring,        \* history: the passes in flight while stop() was called
    ev                 \* history: what the last step did and emitted

vars == <<scheduleString, options, constructed, scheduleConfig, immediateEnvName,
          tasks, isRunning, lastFinishTime, cronJob, ticking, now, passes,
          finishedAt, stopDuring, ev>>

----------------------------------------------------------------------------
(* Bounds of the model *)

MaxLen == 3          \* longest schedule string explored by ParseSpec
MaxTasks == 2        \* most tasks registered
MaxJobs == 2         \* most CronJob objects ticking at once
MaxConc == 2         \* most executor invocations suspended at once
MaxClockSteps == 4   \* how often the clock advances

MsPerSecond == 1000

ClockStep == MsPerSecond \div 2

----------------------------------------------------------------------------
(* Strings *)

Chars == {"a", " ", "@", "0", "1", "LF"}

Digits == {"0", "1"}

\* what \s of the regular expression and String.prototype.trim take as blank
IsSpace(c) == c \in {" ", "LF"}

\* what . of the regular expression does not match
IsLineTerminator(c) == c = "LF"

Strings == UNION {[1..n -> Chars] : n \in 0..MaxLen}

DigitValue(c) == IF c = "1" THEN 1 ELSE 0

RECURSIVE parseInt(_)
parseInt(ds) ==
    IF ds = <<>> THEN 0
    ELSE 10 * parseInt(SubSeq(ds, 1, Len(ds) - 1)) + DigitValue(ds[Len(ds)])

RECURSIVE TrimStart(_)
TrimStart(s) ==
    IF s # <<>> /\ IsSpace(s[1]) THEN TrimStart(Tail(s)) ELSE s

RECURSIVE TrimEnd(_)
TrimEnd(s) ==
    IF s # <<>> /\ IsSpace(s[Len(s)]) THEN TrimEnd(SubSeq(s, 1, Len(s) - 1)) ELSE s

trim(s) == TrimEnd(TrimStart(s))

\* r is all of  \s*@\s*(\d+)  with the digits starting at position d
CooldownSuffixAt(r, d) ==
    /\ d \in 2..Len(r)
    /\ \A j \in d..Len(r) : r[j] \in Digits
    /\ \E k \in 1..(d - 1) :
          /\ r[k] = "@"
          /\ \A j \in 1..(k - 1) : IsSpace(r[j])
          /\ \A j \in (k + 1)..(d - 1) : IsSpace(r[j])

IsCooldownSuffix(r) == \E d \in 2..Len(r) : CooldownSuffixAt(r, d)

\* the lengths the lazy group (.*?) can take so that the whole string matches
MatchSplits(s) ==
    {i \in 0..Len(s) :
        /\ \A j \in 1..i : ~IsLineTerminator(s[j])
        /\ \/ IsCooldownSuffix(SubSeq(s, i + 1, Len(s)))
           \/ i = Len(s)}

Min(S) == CHOOSE x \in S : \A y \in S : x <= y

\* scheduleString.match(/^(.*?)(?:\s*@\s*(\d+))?$/)
RegexMatch(s) ==
    IF MatchSplits(s) = {} THEN [matched |-> FALSE, schedule |-> <<>>, cooldownStr |-> <<>>]
    ELSE LET i == Min(MatchSplits(s))
             r == SubSeq(s, i + 1, Len(s))
         IN  [matched |-> TRUE,
              schedule |-> SubSeq(s, 1, i),
              cooldownStr |->
                  IF r = <<>> THEN <<>>
                  ELSE LET d == CHOOSE d \in 2..Len(r) : CooldownSuffixAt(r, d)
                       IN  SubSeq(r, d, Len(r))]

\* an optional number is <<>> (undefined) or <<n>>
BackupDefault(backup) == IF backup = <<>> THEN 0 ELSE backup[1]

parseSchedule(str, backup) ==
    LET backupCooldownSeconds == BackupDefault(backup)
        match == RegexMatch(str)
    IN  IF ~match.matched
        THEN [schedule |-> str, cooldown |-> backupCooldownSeconds * MsPerSecond]
        ELSE LET cooldownSeconds ==
                     IF match.cooldownStr # <<>> THEN parseInt(match.cooldownStr)
                     ELSE backupCooldownSeconds
             IN  [schedule |-> trim(match.schedule),
                  cooldown |-> cooldownSeconds * MsPerSecond]

----------------------------------------------------------------------------
(* Values *)

Undefined == "<undefined>"

NoName == "<no name>"

\* the values process.env[name] can have when run() reads it
EnvValues == {Undefined, "", "true"}

DefaultSchedule == <<"0", " ", "5", " ", "*", " ", "*", " ", "*", " ", "*">>

\* the constructor's first parameter: <<>> when omitted, else <<string>>
ScheduleArg(arg) == IF arg = <<>> THEN DefaultSchedule ELSE arg[1]

\* An executor invocation suspended at an await: pc is "task" in executeTask's
\* await of the task and "loop" in the executor's await of executeTask; i is
\* the loop variable.  invoked, pending, failed and errors are history: the
\* tasks called so far, those called and not settled, those that failed, and
\* the positions the error notices named; known is the number of tasks that
\* were registered when the invocation began.  The constant startTime, used
\* only for the time taken that the completion notice shows, is not carried.
NoPass ==
    [pc |-> "none", i |-> 0, via |-> "none", known |-> 0,
     invoked |-> <<>>, pending |-> {}, failed |-> {}, errors |-> <<>>]

PassIds == 1..MaxConc

JobIds == 1..MaxJobs

InFlight == {id \in PassIds : passes[id].pc # "none"}

FreeIds == PassIds \ InFlight

FreeJobs == JobIds \ ticking

NoEvent ==
    [op |-> "new", notices |-> <<>>, errors |-> <<>>, invoked |-> <<>>,
     execs |-> 0, started |-> FALSE, finished |-> FALSE, pass |-> NoPass,
     returned |-> FALSE, raised |-> FALSE, env |-> Undefined,
     stoppedDuring |-> FALSE]

Event(op) == [NoEvent EXCEPT !.op = op]

----------------------------------------------------------------------------
(* The log output *)

NoticeStillRunning == <<"Previous execution still running. Skipping this run.">>

NoticeCooldown(n) ==
    <<"Cooldown period not elapsed. Skipping this run. {n} seconds remaining.", n>>

NoticeBanner == <<"----------------------------------------">>

NoticeStarting == <<"Starting execution">>

NoticeExecuting(n, total) == <<"Executing task {n}/{total}", n, total>>

NoticeTaskCompleted(n) == <<"Task {n} completed successfully", n>>

ErrorTaskFailed(n) == <<"Task {n} failed:", n>>

\* the time taken that the notice shows is not modelled
NoticeCompleted == <<"Execution completed. Time taken: {t} seconds">>

NoticeNextRun(t) == <<"Next earliest execution will be after {t}", t>>

NoticeScheduling(pattern, seconds) ==
    <<"Scheduling tasks. Pattern: {p}, Cooldown: {s} seconds", pattern, seconds>>

NoticeImmediate(name, value) == <<"Running immediately ({name}={value})", name, value>>

NoticeStopped == <<"Stopped scheduling future runs.">>

----------------------------------------------------------------------------
(* Construction *)

\* a variant that begins the first cooldown window one second after the epoch
InitialFinishTimeLate == MsPerSecond

\* private lastFinishTime: number = 0
InitialFinishTime == 0

Fresh ==
    /\ tasks = <<>>
    /\ isRunning = FALSE
    /\ lastFinishTime = InitialFinishTime
    /\ cronJob = 0
    /\ ticking = {}
    /\ now = 0
    /\ passes = [id \in PassIds |-> NoPass]
    /\ finishedAt = <<>>
    /\ stopDuring = {}
    /\ ev = NoEvent

OptionValues ==
    [backupCooldownSeconds : {<<>>, <<0>>, <<2>>}, immediateEnvName : {NoName, "TEST"}]

\* new TaskScheduler(scheduleString, options)
Construct ==
    /\ ~constructed
    /\ constructed' = TRUE
    /\ immediateEnvName' = options.immediateEnvName
    /\ scheduleConfig' =
          parseSchedule(ScheduleArg(scheduleString), options.backupCooldownSeconds)
    /\ ev' = Event("construct")
    /\ UNCHANGED <<scheduleString, options, tasks, isRunning, lastFinishTime, cronJob,
                   ticking, now, passes, finishedAt, stopDuring>>

\* the separator of the documented form "<pattern> @ <seconds>"
CooldownSeparator == <<" ", "@", " ">>

\* decimal texts of a cooldown, each with the number it denotes
CooldownTexts == {<<<<"0">>, 0>>, <<<<"1">>, 1>>, <<<<"0", "1">>, 1>>, <<<<"1", "0">>, 10>>}

\* schedule strings of the documented form "<pattern> @ <seconds>"
CooldownFormStrings ==
    {p \o CooldownSeparator \o k[1] : p \in Strings, k \in CooldownTexts}

ParseInit ==
    /\ scheduleString \in {<<>>} \cup {<<s>> : s \in Strings \cup CooldownFormStrings}
    /\ options \in OptionValues
    /\ constructed = FALSE
    /\ scheduleConfig = [schedule |-> <<>>, cooldown |-> 0]
    /\ immediateEnvName = NoName
    /\ Fresh

ParseSpec == ParseInit /\ [][Construct]_vars

----------------------------------------------------------------------------
(* register *)

\* register(task): a task is known by the order of its registration
register ==
    /\ constructed
    /\ Len(tasks) < MaxTasks
    /\ tasks' = Append(tasks, Len(tasks) + 1)
    /\ ev' = Event("register")
    /\ UNCHANGED <<scheduleString, options, constructed, scheduleConfig,
                   immediateEnvName, isRunning, lastFinishTime, cronJob, ticking,
                   now, passes, finishedAt, stopDuring>>

----------------------------------------------------------------------------
(* executeTask and executor *)

\* a variant that names the 0-based index
TaskNumberZeroBased(index) == index

\* the position a task's notices name: index + 1
TaskNumber(index) == index + 1

\* a variant that does not await the task
executeTaskUnawaited(p, sync) ==
    LET n == TaskNumber(p.i)
        thrown == sync = "throw"
    IN  [pass |-> [p EXCEPT !.pc = "loop",
                            !.invoked = Append(@, tasks[p.i + 1]),
                            !.pending = IF thrown THEN @ ELSE @ \cup {tasks[p.i + 1]},
                            !.failed = IF thrown THEN @ \cup {tasks[p.i + 1]} ELSE @,
                            !.errors = IF thrown THEN Append(@, n) ELSE @],
         notices |-> <<NoticeExecuting(n, Len(tasks))>>,
         errors |-> IF thrown THEN <<ErrorTaskFailed(n)>> ELSE <<>>]

\* executeTask(task, index) up to its await.  p.i is the index; sync tells
\* whether the call task() throws or returns a value or promise.
executeTask(p, sync) ==
    LET n == TaskNumber(p.i)
        thrown == sync = "throw"
    IN  [pass |-> [p EXCEPT !.pc = IF thrown THEN "loop" ELSE "task",
                            !.invoked = Append(@, tasks[p.i + 1]),
                            !.pending = IF thrown THEN @ ELSE @ \cup {tasks[p.i + 1]},
                            !.failed = IF thrown THEN @ \cup {tasks[p.i + 1]} ELSE @,
                            !.errors = IF thrown THEN Append(@, n) ELSE @],
         notices |-> <<NoticeExecuting(n, Len(tasks))>>,
         errors |-> IF thrown THEN <<ErrorTaskFailed(n)>> ELSE <<>>]

\* a variant without the overlap guard
OverlappingNever == FALSE

\* if (this.isRunning)
Overlapping == isRunning

\* a variant that still skips when exactly the cooldown has elapsed
CooldownActiveAtBoundary(t) == t - lastFinishTime <= scheduleConfig.cooldown

\* if (now - this.lastFinishTime < this.scheduleConfig.cooldown)
CooldownActive(t) == t - lastFinishTime < scheduleConfig.cooldown

\* a variant that rounds down: Math.floor(a / b) for b > 0
Floor(a, b) == a \div b

\* Math.ceil(a / b) for b > 0
Ceil(a, b) == -((-a) \div b)

remainingCooldown(t) ==
    Ceil(scheduleConfig.cooldown - (t - lastFinishTime), MsPerSecond)

\* a variant that forgets to record the end of the pass
FinishTimeStale(p) == lastFinishTime

\* a variant that records the end of a pass only if no task failed
FinishTimeOnSuccess(p) == IF p.failed = {} THEN now ELSE lastFinishTime

\* this.lastFinishTime = Date.now()
FinishTime(p) == now

\* i++
NextIndex(i) == i + 1

\* what the executor logs after the loop
CompletionNotices(p, finish) ==
    <<NoticeCompleted>>
    \o (IF scheduleConfig.cooldown > 0
        THEN <<NoticeNextRun(finish + scheduleConfig.cooldown)>> ELSE <<>>)
    \o <<NoticeBanner>>

\* a variant that takes the length once, when the executor begins
LoopTestSnapshot(p) == p.i < p.known

\* i < this.tasks.length, the length being read at every test
LoopTest(p) == p.i < Len(tasks)

\* The for loop of the executor from its test  i < this.tasks.length  with
\* i = p.i, up to the next await or to the end of the executor.
Loop(id, p, sync, e) ==
    IF LoopTest(p)
    THEN LET r == executeTask(p, sync)
         IN  /\ passes' = [passes EXCEPT ![id] = r.pass]
             /\ ev' = [e EXCEPT !.notices = @ \o r.notices,
                                !.errors = @ \o r.errors,
                                !.invoked = <<tasks[p.i + 1]>>]
             /\ UNCHANGED <<lastFinishTime, finishedAt, stopDuring>>
    ELSE /\ passes' = [passes EXCEPT ![id] = NoPass]
         /\ lastFinishTime' = FinishTime(p)
         /\ finishedAt' = <<now>>
         /\ stopDuring' = stopDuring \ {id}
         /\ ev' = [e EXCEPT !.notices = @ \o CompletionNotices(p, lastFinishTime'),
                            !.finished = TRUE,
                            !.pass = p,
                            !.returned = (p.via = "run"),
                            !.stoppedDuring = (id \in stopDuring)]

\* executor(), called by a tick (via = "tick") or by run() (via = "run"), up
\* to its first await or to its return.  e holds what the caller has logged.
executor(via, e) ==
    IF Overlapping
    THEN /\ ev' = [e EXCEPT !.notices = @ \o <<NoticeStillRunning>>,
                            !.returned = (via = "run")]
         /\ UNCHANGED <<isRunning, lastFinishTime, passes, finishedAt, stopDuring>>
    ELSE IF CooldownActive(now)
    THEN /\ ev' = [e EXCEPT !.notices = @ \o <<NoticeCooldown(remainingCooldown(now))>>,
                            !.returned = (via = "run")]
         /\ UNCHANGED <<isRunning, lastFinishTime, passes, finishedAt, stopDuring>>
    ELSE /\ FreeIds # {}
         /\ LET id == Min(FreeIds)
                p == [NoPass EXCEPT !.pc = "loop", !.via = via, !.known = Len(tasks)]
            IN  /\ isRunning' = LoopTest(p)
                /\ \E sync \in {"throw", "return"} :
                      Loop(id, p, sync,
                           [e EXCEPT !.notices = @ \o <<NoticeBanner, NoticeStarting>>,
                                     !.started = TRUE])

\* the promise of task() settles and executeTask runs to its end
settle(id) ==
    /\ passes[id].pc = "task"
    /\ \E outcome \in {"resolve", "reject"} :
          LET p == passes[id]
              n == TaskNumber(p.i)
              rejected == outcome = "reject"
          IN  /\ passes' = [passes EXCEPT ![id] =
                    [p EXCEPT !.pc = "loop",
                              !.pending = @ \ {tasks[p.i + 1]},
                              !.failed = IF rejected THEN @ \cup {tasks[p.i + 1]} ELSE @,
                              !.errors = IF rejected THEN Append(@, n) ELSE @]]
              /\ ev' = [Event("settle") EXCEPT
                           !.notices = IF rejected THEN <<>> ELSE <<NoticeTaskCompleted(n)>>,
                           !.errors = IF rejected THEN <<ErrorTaskFailed(n)>> ELSE <<>>]
    /\ UNCHANGED <<scheduleString, options, constructed, scheduleConfig,
                   immediateEnvName, tasks, isRunning, lastFinishTime, cronJob,
                   ticking, now, finishedAt, stopDuring>>

\* a variant that leaves the guard set when the loop ends
resumeKeepingGuard(id) ==
    /\ passes[id].pc = "loop"
    /\ LET p == [passes[id] EXCEPT !.i = NextIndex(@)]
       IN  /\ isRunning' = isRunning
           /\ \E sync \in {"throw", "return"} : Loop(id, p, sync, Event("resume"))
    /\ UNCHANGED <<scheduleString, options, constructed, scheduleConfig,
                   immediateEnvName, tasks, cronJob, ticking, now>>

\* the executor resumes after  await this.executeTask(...)
resume(id) ==
    /\ passes[id].pc = "loop"
    /\ LET p == [passes[id] EXCEPT !.i = NextIndex(@)]
       IN  /\ isRunning' = IF LoopTest(p) THEN isRunning ELSE FALSE
           /\ \E sync \in {"throw", "return"} : Loop(id, p, sync, Event("resume"))
    /\ UNCHANGED <<scheduleString, options, constructed, scheduleConfig,
                   immediateEnvName, tasks, cronJob, ticking, now>>

\* a variant in which a CronJob fires once and then stops
tickOnce(j) ==
    /\ j \in ticking
    /\ executor("tick", [Event("tick") EXCEPT !.execs = 1])
    /\ ticking' = ticking \ {j}
    /\ UNCHANGED <<scheduleString, options, constructed, scheduleConfig,
                   immediateEnvName, tasks, cronJob, now>>

\* a started CronJob fires its callback  () => this.executor()
tick(j) ==
    /\ j \in ticking
    /\ executor("tick", [Event("tick") EXCEPT !.execs = 1])
    /\ UNCHANGED <<scheduleString, options, constructed, scheduleConfig,
                   immediateEnvName, tasks, cronJob, ticking, now>>

----------------------------------------------------------------------------
(* run and stop *)

\* a variant that tests the truthiness of the value, not its presence
shouldRunImmediatelyTruthy(v) ==
    IF immediateEnvName = NoName THEN FALSE ELSE v \notin {Undefined, ""}

\* shouldRunImmediately(), v being process.env[this.immediateEnvName]
shouldRunImmediately(v) ==
    IF immediateEnvName = NoName THEN FALSE ELSE v # Undefined

\* run(): accepted tells whether the cron library takes the pattern
run ==
    /\ constructed
    /\ \E v \in EnvValues :
          IF ~shouldRunImmediately(v)
          THEN LET e == [Event("run") EXCEPT
                            !.env = v,
                            !.notices = <<NoticeScheduling(scheduleConfig.schedule,
                                              scheduleConfig.cooldown \div MsPerSecond)>>]
               IN  /\ \E accepted \in BOOLEAN :
                         IF accepted
                         THEN /\ FreeJobs # {}
                              /\ cronJob' = Min(FreeJobs)
                              /\ ticking' = ticking \cup {cronJob'}
                              /\ ev' = e
                         ELSE /\ ev' = [e EXCEPT !.raised = TRUE]
                              /\ UNCHANGED <<cronJob, ticking>>
                   /\ UNCHANGED <<isRunning, lastFinishTime, passes, finishedAt, stopDuring>>
          ELSE /\ executor("run", [Event("run") EXCEPT
                            !.env = v,
                            !.execs = 1,
                            !.notices = <<NoticeImmediate(immediateEnvName, v)>>])
               /\ UNCHANGED <<cronJob, ticking>>
    /\ UNCHANGED <<scheduleString, options, constructed, scheduleConfig,
                   immediateEnvName, tasks, now>>

\* a variant that also clears the guard of the pass in flight
stopResetting ==
    /\ constructed
    /\ IF cronJob # 0
       THEN /\ ticking' = ticking \ {cronJob}
            /\ ev' = [Event("stop") EXCEPT !.notices = <<NoticeStopped>>]
       ELSE /\ ev' = Event("stop")
            /\ UNCHANGED ticking
    /\ isRunning' = FALSE
    /\ stopDuring' = stopDuring \cup InFlight
    /\ UNCHANGED <<scheduleString, options, constructed, scheduleConfig,
                   immediateEnvName, tasks, lastFinishTime, cronJob,
                   now, passes, finishedAt>>

\* stop()
stop ==
    /\ constructed
    /\ IF cronJob # 0
       THEN /\ ticking' = ticking \ {cronJob}
            /\ ev' = [Event("stop") EXCEPT !.notices = <<NoticeStopped>>]
       ELSE /\ ev' = Event("stop")
            /\ UNCHANGED ticking
    /\ stopDuring' = stopDuring \cup InFlight
    /\ UNCHANGED <<scheduleString, options, constructed, scheduleConfig,
                   immediateEnvName, tasks, isRunning, lastFinishTime, cronJob,
                   now, passes, finishedAt>>

----------------------------------------------------------------------------
(* The clock and the specification *)

advance ==
    /\ now + ClockStep <= MaxClockSteps * ClockStep
    /\ now' = now + ClockStep
    /\ ev' = Event("advance")
    /\ UNCHANGED <<scheduleString, options, constructed, scheduleConfig,
                   immediateEnvName, tasks, isRunning, lastFinishTime, cronJob,
                   ticking, passes, finishedAt, stopDuring>>

InitArgs ==
    {<<s, o>> \in {<<<<"a">>>>, <<<<"a", "@", "1">>>>} \X OptionValues :
        o.backupCooldownSeconds = <<>>}

\* the schedulers the constructor returns for InitArgs
Init ==
    /\ \E arg \in InitArgs : scheduleString = arg[1] /\ options = arg[2]
    /\ constructed = TRUE
    /\ scheduleConfig =
          parseSchedule(ScheduleArg(scheduleString), options.backupCooldownSeconds)
    /\ immediateEnvName = options.immediateEnvName
    /\ Fresh

Next ==
    \/ register
    \/ run
    \/ stop
    \/ advance
    \/ \E j \in JobIds : tick(j)
    \/ \E id \in PassIds : settle(id)
    \/ \E id \in PassIds : resume(id)

Spec == Init /\ [][Next]_vars

\* one Scheduler: new TaskScheduler("a@1", {immediateEnvName: "TEST"})
FairInit ==
    /\ scheduleString = <<<<"a", "@", "1">>>>
    /\ options = [backupCooldownSeconds |-> <<>>, immediateEnvName |-> "TEST"]
    /\ constructed = TRUE
    /\ scheduleConfig =
          parseSchedule(ScheduleArg(scheduleString), options.backupCooldownSeconds)
    /\ immediateEnvName = options.immediateEnvName
    /\ Fresh

\* Every task's promise settles, and the event loop runs the continuation
\* of a settled await.
FairSpec ==
    /\ FairInit
    /\ [][Next]_vars
    /\ WF_vars(\E id \in PassIds : settle(id))
    /\ WF_vars(\E id \in PassIds : resume(id))

----------------------------------------------------------------------------
(* Properties *)

Has(seq, x) == \E k \in DOMAIN seq : seq[k] = x

Count(seq, x) == Cardinality({k \in DOMAIN seq : seq[k] = x})

\* the step just taken called the executor
ExecutorCalled == ev.op \in {"tick", "run"} /\ ev.execs = 1

\* C1: at most one pass is in progress at any time, and an executor
\* invocation (by a tick or by run() in immediate mode) that begins while a
\* pass has not finished emits "Previous execution still running. Skipping
\* this run.", invokes no task and starts no pass.
C1_AtMostOnePass ==
    /\ [](Cardinality(InFlight) <= 1)
    /\ [][(ExecutorCalled' /\ InFlight # {}) =>
             /\ Has(ev'.notices, NoticeStillRunning)
             /\ ev'.invoked = <<>>
             /\ ~ev'.started
             /\ passes' = passes]_vars

\* an executor invocation was skipped for overlap while a pass is in flight
C1_Witness ==
    /\ ExecutorCalled
    /\ Has(ev.notices, NoticeStillRunning)
    /\ InFlight # {}

\* C2: a pass starts at least `cooldown` after the time the previous pass
\* finished (end to start, not start to start), and an executor invocation
\* made while now - lastFinishTime < cooldown invokes no task and emits the
\* "Cooldown period not elapsed" notice.
C2_CooldownFromFinish ==
    [][/\ (ev'.started /\ finishedAt # <<>>) =>
              now' - finishedAt[1] >= scheduleConfig.cooldown
       /\ (ExecutorCalled' /\ now - lastFinishTime < scheduleConfig.cooldown) =>
              /\ ev'.invoked = <<>>
              /\ ~ev'.started
              /\ \E n \in 1..(scheduleConfig.cooldown \div MsPerSecond) :
                    Has(ev'.notices, NoticeCooldown(n))]_vars

\* a later pass has just started exactly `cooldown` after the time the
\* previous pass finished, which was later than the construction
C2_Witness ==
    /\ ev.started
    /\ ~ev.finished
    /\ finishedAt # <<>>
    /\ scheduleConfig.cooldown > 0
    /\ finishedAt[1] > 0
    /\ now - finishedAt[1] = scheduleConfig.cooldown

\* C3: a completed pass has invoked the registered tasks in registration
\* order, each exactly once; a pass in flight has invoked a prefix of them,
\* and a task is invoked only when no task of the pass is still unsettled.
C3_InOrderSequential ==
    /\ ev.finished => ev.pass.invoked = tasks /\ ev.pass.pending = {}
    /\ \A id \in InFlight :
          LET p == passes[id]
          IN  /\ Len(p.invoked) <= Len(tasks)
              /\ p.invoked = SubSeq(tasks, 1, Len(p.invoked))
              /\ Cardinality(p.pending) <= 1
              /\ p.pending \subseteq {p.invoked[Len(p.invoked)]}

\* a pass over two tasks has completed, its first task having been awaited
C3_Witness ==
    /\ ev.finished
    /\ Len(tasks) = 2
    /\ ev.pass.invoked = <<1, 2>>
    /\ ev.pass.failed = {}

\* C4: a completed pass has invoked every task, also those registered after
\* a failing one; for each task the error sink got exactly one notice with
\* its 1-based position if it failed (by throwing or by rejecting) and none
\* if it did not; and no step of a pass raises an error to its caller.
C4_FailureIsolation ==
    /\ ev.finished =>
          /\ ev.pass.invoked = tasks
          /\ \A k \in 1..Len(tasks) :
                Count(ev.pass.errors, k) = (IF tasks[k] \in ev.pass.failed THEN 1 ELSE 0)
          /\ \A k \in DOMAIN ev.pass.errors : ev.pass.errors[k] \in 1..Len(tasks)
    /\ \A k \in DOMAIN ev.errors :
          /\ ev.op \in {"tick", "run", "settle", "resume"}
          /\ \E n \in 1..Len(tasks) : ev.errors[k] = ErrorTaskFailed(n)
    /\ (ev.op \in {"tick", "settle", "resume"} \/ ev.execs = 1) => ~ev.raised

\* a pass has completed in which the first task failed and the second ran
C4_Witness ==
    /\ ev.finished
    /\ ev.pass.failed = {1}
    /\ ev.pass.invoked = <<1, 2>>
    /\ ev.pass.errors = <<1>>

\* the handle of the Scheduler refers to a Trigger that is ticking
TriggerActive == cronJob # 0 /\ cronJob \in ticking

\* C5: at most one Trigger is ticking in every reachable state, and after a
\* stop() no Trigger is ticking, however many scheduled run() calls came
\* before it.
C5_SingleTrigger ==
    /\ Cardinality(ticking) <= 1
    /\ ev.op = "stop" => ticking = {}

\* C6: stop() called when no Trigger is active (never scheduled, or already
\* stopped) emits no notice, raises no error and changes no state.
C6_StopNoOp ==
    [][(ev'.op = "stop" /\ ~TriggerActive) =>
          /\ ev'.notices = <<>>
          /\ ev'.errors = <<>>
          /\ ~ev'.raised
          /\ UNCHANGED <<scheduleConfig, tasks, isRunning, lastFinishTime, cronJob,
                         ticking, passes>>]_vars

\* C7: stop() called while a Trigger is active stops that Trigger, clears
\* the handle and emits exactly one "Stopped scheduling future runs."
\* notice, and leaves no Trigger ticking, so that no tick invokes the
\* executor before the next scheduled run().
C7_StopReleases ==
    [][(ev'.op = "stop" /\ TriggerActive) =>
          /\ cronJob \notin ticking'
          /\ cronJob' = 0
          /\ ev'.notices = <<NoticeStopped>>
          /\ ticking' = {}]_vars

\* C8: run() with a signal name configured and the signal present in the
\* environment (whatever its value) calls the executor exactly once, emits
\* the "Running immediately" notice, creates no Trigger and returns exactly
\* when that executor invocation has finished; otherwise run() takes the
\* scheduled branch: it emits the "Scheduling tasks" notice, calls no
\* executor and starts no pass, and starts a new Trigger when the cron
\* library accepts the pattern.
C8_ModeSelection ==
    /\ [][ev'.op = "run" =>
             IF immediateEnvName # NoName /\ ev'.env # Undefined
             THEN /\ ev'.execs = 1
                  /\ Has(ev'.notices, NoticeImmediate(immediateEnvName, ev'.env))
                  /\ cronJob' = cronJob
                  /\ ticking' = ticking
                  /\ ~ev'.raised
                  /\ ev'.returned = (~ev'.started \/ ev'.finished)
             ELSE /\ ev'.execs = 0
                  /\ ~ev'.started
                  /\ ev'.invoked = <<>>
                  /\ passes' = passes
                  /\ Has(ev'.notices,
                         NoticeScheduling(scheduleConfig.schedule,
                                          scheduleConfig.cooldown \div MsPerSecond))
                  /\ ~ev'.raised =>
                        /\ cronJob' \in ticking'
                        /\ cronJob' \notin ticking]_vars
    /\ [][ev'.returned =>
             \/ ev'.op = "run" /\ (~ev'.started \/ ev'.finished)
             \/ ev'.op = "resume" /\ ev'.finished /\ ev'.pass.via = "run"]_vars

\* run() found the signal present with an empty value and started a pass
C8_Witness ==
    /\ ev.op = "run"
    /\ immediateEnvName = "TEST"
    /\ ev.env = ""
    /\ ev.started
    /\ ev.invoked # <<>>
    /\ ~ev.returned

\* C9: stop() leaves the pass in flight, the running flag, lastFinishTime
\* and the tasks as they are; a pass during which stop() was called still
\* invokes every task in order and ends with running false and
\* lastFinishTime set to the time of its end.
C9_StopKeepsPass ==
    /\ [][ev'.op = "stop" =>
             /\ passes' = passes
             /\ isRunning' = isRunning
             /\ lastFinishTime' = lastFinishTime
             /\ tasks' = tasks]_vars
    /\ []((ev.finished /\ ev.stoppedDuring) =>
             /\ ev.pass.invoked = tasks
             /\ ~isRunning
             /\ lastFinishTime = now)
    /\ [](\A id \in InFlight \cap stopDuring : isRunning)

\* a pass during which stop() was called has resumed and invoked its next task
C9_Witness ==
    /\ ev.op = "resume"
    /\ ev.invoked = <<2>>
    /\ \E id \in InFlight : id \in stopDuring /\ passes[id].invoked = <<1, 2>>

\* C10: no Scheduler is constructed from an empty or whitespace-only
\* schedule string.
C10_BlankRejected ==
    constructed => trim(ScheduleArg(scheduleString)) # <<>>

\* t is s without its leading and trailing whitespace
IsTrimOf(t, s) ==
    /\ t = <<>> \/ (~IsSpace(t[1]) /\ ~IsSpace(t[Len(t)]))
    /\ \E a \in 0..Len(s) :
          /\ a + Len(t) <= Len(s)
          /\ t = SubSeq(s, a + 1, a + Len(t))
          /\ \A j \in (1..a) \cup ((a + Len(t) + 1)..Len(s)) : IsSpace(s[j])

\* C11: a Scheduler constructed from "<p> @ <k>", k the decimal text of a
\* non-negative integer (0 included), has cooldown k * 1000 ms whatever the
\* fallback option is, and has p without its surrounding whitespace as pattern.
C11_SuffixPrecedence ==
    constructed =>
        \A p \in Strings, k \in CooldownTexts :
            ScheduleArg(scheduleString) = p \o CooldownSeparator \o k[1] =>
                /\ scheduleConfig.cooldown = k[2] * MsPerSecond
                /\ IsTrimOf(scheduleConfig.schedule, p)

\* s ends with  \s*@\s*\d+
HasCooldownSuffix(s) ==
    \E i \in 0..Len(s) : IsCooldownSuffix(SubSeq(s, i + 1, Len(s)))

\* C12: a Scheduler constructed from a non-empty schedule string that has
\* no "@ <digits>" suffix has the fallback option, in ms, as cooldown (0
\* when the option is absent) and the string without its surrounding
\* whitespace as pattern.
C12_NoSuffixFallback ==
    constructed =>
        LET s == ScheduleArg(scheduleString)
            backup == options.backupCooldownSeconds
        IN  (s # <<>> /\ ~HasCooldownSuffix(s)) =>
                /\ scheduleConfig.cooldown =
                      (IF backup = <<>> THEN 0 ELSE backup[1]) * MsPerSecond
                /\ IsTrimOf(scheduleConfig.schedule, s)

\* C13: a run() whose scheduled branch fails to create or start the
\* Trigger has written the failure to the error sink before it raises it to
\* its caller.
C13_StartFailureLogged ==
    (ev.op = "run" /\ ev.execs = 0 /\ ev.raised) => ev.errors # <<>>

\* C14: a task registered while a pass is in progress is invoked in that
\* same pass, once, after the tasks registered before it: a completed pass
\* has invoked every task registered before its end, those registered
\* after its start included, and a pass in flight has invoked no task twice.
C14_RegisteredDuringPass ==
    /\ ev.finished =>
          /\ ev.pass.known <= Len(tasks)
          /\ \A k \in 1..Len(tasks) :
                k > ev.pass.known =>
                    /\ Count(ev.pass.invoked, tasks[k]) = 1
                    /\ ev.pass.invoked[k] = tasks[k]
    /\ \A id \in InFlight, k \in 1..Len(tasks) :
          Count(passes[id].invoked, tasks[k]) <= 1

\* a pass that began with one task has completed having invoked a second
\* task, registered while the first was awaited
C14_Witness ==
    /\ ev.finished
    /\ ev.pass.known = 1
    /\ ev.pass.invoked = <<1, 2>>

\* C14 as stated: a pass invokes none of the tasks registered after its start
C14_RegisteredDuringPassWaits ==
    /\ ev.finished => Len(ev.pass.invoked) <= ev.pass.known
    /\ \A id \in InFlight : Len(passes[id].invoked) <= passes[id].known

\* C15: an executor invocation made while a pass is running or while the
\* cooldown has not elapsed emits one info notice (the overlap or the
\* cooldown notice) and nothing else: it invokes no task, writes nothing to
\* the error sink, raises nothing, and leaves running, lastFinishTime, the
\* tasks, the Trigger handle, the Triggers and the pass in flight as they are.
C15_SkipHasNoEffect ==
    [][(ExecutorCalled' /\ (isRunning \/ now - lastFinishTime < scheduleConfig.cooldown)) =>
          /\ UNCHANGED <<isRunning, lastFinishTime, tasks, cronJob, ticking, passes,
                         scheduleConfig, now>>
          /\ ev'.invoked = <<>>
          /\ ev'.errors = <<>>
          /\ ~ev'.raised
          /\ ~ev'.started /\ ~ev'.finished
          /\ LET logged == IF ev'.op = "run" THEN Tail(ev'.notices) ELSE ev'.notices
             IN  /\ Len(logged) = 1
                 /\ \/ logged[1] = NoticeStillRunning
                    \/ \E n \in 1..(scheduleConfig.cooldown \div MsPerSecond) :
                          logged[1] = NoticeCooldown(n)]_vars

\* a tick was skipped for cooldown after a pass over registered tasks, the
\* Trigger being active
C15_Witness ==
    /\ ev.op = "tick"
    /\ ev.notices = <<NoticeCooldown(1)>>
    /\ finishedAt # <<>>
    /\ tasks # <<>>
    /\ TriggerActive

\* C16: lastFinishTime changes only in the step that completes a pass, and
\* every completed pass (over no task, with or without failed tasks) ends
\* with running false and lastFinishTime equal to the time of its end;
\* register, stop(), run() in its scheduled branch, a skipped invocation and
\* the steps inside a pass leave lastFinishTime as it is.
C16_FinishTimeSetAtEnd ==
    /\ [][lastFinishTime' # lastFinishTime => ev'.finished]_vars
    /\ [](ev.finished => (~isRunning /\ lastFinishTime = now))
    /\ [](lastFinishTime = (IF finishedAt = <<>> THEN 0 ELSE finishedAt[1]))

\* a pass in which both tasks failed has completed later than the construction
C16_Witness ==
    /\ ev.finished
    /\ ev.pass.failed = {1, 2}
    /\ now > 0
    /\ lastFinishTime = now
    /\ ~isRunning

\* C17: an executor invocation made while running is false and
\* now - lastFinishTime >= cooldown (equality included) starts a pass and
\* emits no cooldown notice; with a cooldown of 0 no invocation ever emits
\* the cooldown notice.
C17_RunsWhenCooldownElapsed ==
    /\ [][(/\ ExecutorCalled'
           /\ ~isRunning
           /\ now - lastFinishTime >= scheduleConfig.cooldown) =>
              /\ ev'.started
              /\ Has(ev'.notices, NoticeStarting)
              /\ \A k \in DOMAIN ev'.notices : ev'.notices[k][1] # NoticeCooldown(0)[1]
              /\ tasks # <<>> => ev'.invoked = <<tasks[1]>>]_vars
    /\ [](scheduleConfig.cooldown = 0 =>
             \A k \in DOMAIN ev.notices : ev.notices[k][1] # NoticeCooldown(0)[1])

\* with a cooldown of one second, a pass has started on a tick exactly one
\* second after the previous pass finished and has invoked the first task
C17_Witness ==
    /\ ev.op = "tick"
    /\ ev.started
    /\ ev.invoked = <<1>>
    /\ finishedAt # <<>>
    /\ scheduleConfig.cooldown = MsPerSecond
    /\ now - lastFinishTime = scheduleConfig.cooldown

\* C18: the Trigger handle and the set of ticking Triggers change only in
\* run()'s scheduled branch and in stop(); ticks, passes (their start,
\* their steps, their failures and their end), skipped invocations,
\* register and run() in immediate mode leave both as they are.
C18_TriggerOwnedByRunAndStop ==
    [][(cronJob' # cronJob \/ ticking' # ticking) =>
          \/ ev'.op = "stop"
          \/ ev'.op = "run" /\ ev'.execs = 0 /\ ~ev'.raised]_vars

\* a task has failed in a pass started by a tick while the Trigger is active
C18_Witness ==
    /\ ev.op \in {"tick", "settle", "resume"}
    /\ ev.errors # <<>>
    /\ TriggerActive
    /\ isRunning

\* C19: the running flag is true exactly while a pass is in progress: it
\* is false on a fresh Scheduler, true in every state in which an executor
\* invocation is suspended inside its loop, false again once the loop has
\* gone over all tasks, and never true when no pass is in flight.
C19_RunningIffPassInFlight ==
    /\ isRunning <=> InFlight # {}
    /\ ev.op = "new" => ~isRunning
    /\ (ev.started /\ ~ev.finished) => isRunning
    /\ ev.finished => (~isRunning /\ ev.pass.i = Len(tasks))

\* time has passed while a pass awaits its second task
C19_Witness ==
    /\ ev.op = "advance"
    /\ isRunning
    /\ \E id \in InFlight : passes[id].pc = "task" /\ passes[id].i = 1

\* C20: the number n of a cooldown notice is the remaining time
\* cooldown - (now - lastFinishTime) in whole seconds, rounded up: the
\* remaining time is above n - 1 seconds and at most n seconds, and n is at
\* least 1 and at most the cooldown in seconds; for a cooldown of 30 s of
\* which 15 s have elapsed the number is 15.
C20_RemainingRoundedUp ==
    /\ \A k \in DOMAIN ev.notices :
          ev.notices[k][1] = NoticeCooldown(0)[1] =>
              LET n == ev.notices[k][2]
                  remaining == scheduleConfig.cooldown - (now - lastFinishTime)
              IN  /\ (n - 1) * MsPerSecond < remaining
                  /\ remaining <= n * MsPerSecond
                  /\ n >= 1
                  /\ n * MsPerSecond <= scheduleConfig.cooldown
    /\ Ceil(30 * MsPerSecond - 15 * MsPerSecond, MsPerSecond) = 15

\* an invocation was skipped half a second after a pass finished, with half
\* a second of cooldown remaining, and the notice says 1 second
C20_Witness ==
    /\ ExecutorCalled
    /\ Has(ev.notices, NoticeCooldown(1))
    /\ finishedAt # <<>>
    /\ 2 * (now - lastFinishTime) = scheduleConfig.cooldown

C22_StuckWhileUnsettled ==
    /\ [](\A id \in InFlight : passes[id].pc = "task" => isRunning)
    /\ [][((\E id \in InFlight : passes[id].pc = "task") /\ ev'.op # "settle") =>
             /\ passes' = passes
             /\ isRunning'
             /\ ExecutorCalled' =>
                   /\ Has(ev'.notices, NoticeStillRunning)
                   /\ ev'.invoked = <<>>
                   /\ ~ev'.started]_vars

\* a tick of a Trigger that run() started after a stop() is skipped for
\* overlap, the pass that was in flight at the stop() still awaiting its task
C22_Witness ==
    /\ ev.op = "tick"
    /\ Has(ev.notices, NoticeStillRunning)
    /\ TriggerActive
    /\ \E id \in InFlight \cap stopDuring : passes[id].pc = "task"

\* C23: until a first pass has finished lastFinishTime is 0, the epoch, so
\* an executor invocation made before any pass has finished, at a time at
\* least `cooldown` past the epoch, is not skipped for cooldown; a cooldown
\* skip at such a time follows a finished pass.
C23_FirstPassNotGated ==
    /\ finishedAt = <<>> => lastFinishTime = 0
    /\ (/\ ExecutorCalled
        /\ now >= scheduleConfig.cooldown
        /\ \E n \in 0..(scheduleConfig.cooldown \div MsPerSecond) :
               Has(ev.notices, NoticeCooldown(n))) =>
           finishedAt # <<>>
    /\ (ExecutorCalled /\ finishedAt = <<>> /\ now >= scheduleConfig.cooldown) =>
           (ev.started \/ Has(ev.notices, NoticeStillRunning))

\* with a cooldown of one second, the first pass of a Scheduler has started
\* one second after the epoch
C23_Witness ==
    /\ ExecutorCalled
    /\ ev.started
    /\ finishedAt = <<>>
    /\ scheduleConfig.cooldown = MsPerSecond
    /\ now = scheduleConfig.cooldown

====
